---- MODULE Spec2Model ----
(***************************************************************************)
(* FISHscale: the GraphSAGE training losses (graphNN/models.py) and the    *)
(* MultiDataset container (utils/dataset.py).                              *)
(*                                                                         *)
(* Real-valued losses are kept in fixed point, in thousandths.  Grid       *)
(* coordinates are kept in half units (the integer c stands for c/2).      *)
(***************************************************************************)
EXTENDS Integers, Sequences, FiniteSets, TLC

VARIABLES
    \* CrossEntropyLoss.forward: its arguments and what it returned
    block_outputs, pos_graph, neg_graph, ce_ret,
    \* SAGELightning.loss_discriminator: its arguments (with the logits the domain
    \* classifier gave for each latent tensor), its locals and what it returned
    cls_logits, predict_true_class, return_details, cls_target, losses, ld_ret,
    \* SAGELightning: self.supervised, self.smooth, self.kappa, self.hparams.kappa,
    \* and of the last training_step: its batch, the batch entries it read, the
    \* submodules it called, its local losses and what it returned
    supervised, smooth, kappa, hparams_kappa, batch, reads, calls, ts_locals, ts_ret,
    \* MultiDataset.__init__: its arguments data (with type(data)) and unique_genes
    data_type, data, arg_unique_genes,
    \* MultiDataset: the attributes that are set, self.datasets, self.index,
    \* self.unique_genes, self.unit_scale, self.unit_area, the methods __init__
    \* called, and how __init__ ended
    md_attrs, datasets, index, unique_genes, unit_scale, unit_area, md_trace, md_ret,
    \* a for loop over a MultiDataset: where the loop stands, the index it started
    \* from, what it was handed so far, and how many loops were started
    it_pc, start_index, yielded, loops,
    \* the last call of arange_grid_offset or reset_offset: the method, its
    \* argument, its local sorted, the datasets it called offset_data on, how it
    \* ended
    gr_call

ceVars == <<block_outputs, pos_graph, neg_graph, ce_ret>>
ldVars == <<cls_logits, predict_true_class, return_details, cls_target, losses, ld_ret>>
tsVars == <<supervised, smooth, kappa, hparams_kappa, batch, reads, calls, ts_locals, ts_ret>>
argVars == <<data_type, data, arg_unique_genes>>
mdVars == <<md_attrs, datasets, index, unique_genes, unit_scale, unit_area, md_trace, md_ret>>
itVars == <<it_pc, start_index, yielded, loops>>
grVars == <<gr_call>>
vars == <<ceVars, ldVars, tsVars, argVars, mdVars, itVars, grVars>>

\* What a call left behind: nothing yet, a returned value, or a raised exception
NotCalled == [status |-> "not called"]
Raised(exc) == [status |-> "raised", exc |-> exc]

(***************************************************************************)
(* Bounds                                                                  *)
(***************************************************************************)
MaxEdges == 2
MaxRaise == 4
MaxRows == 2
MaxSteps == 3
MaxDatasets == 2
MaxIterLen == 3
MaxLoops == 3
MaxGrid == 5

(***************************************************************************)
(* Sequence helpers                                                        *)
(***************************************************************************)
RECURSIVE SumSeq(_)
SumSeq(s) == IF s = <<>> THEN 0 ELSE Head(s) + SumSeq(Tail(s))

SeqsUpTo(S, n) == UNION {[1..k -> S] : k \in 1..n}

\* tensor.mean() of a one-dimensional tensor, rounded down to the fixed-point grid
Mean(s) == SumSeq(s) \div Len(s)

(***************************************************************************)
(* torch.nn.functional.logsigmoid, negated: -logsigmoid(x) = log(1+e^-x),  *)
(* in thousandths, for the integer scores the model draws (|x| <= 8).      *)
(***************************************************************************)
NegLogSigmoidTable ==
    <<8000, 7001, 6002, 5007, 4018, 3049, 2127, 1313, 693,
      313, 127, 49, 18, 7, 2, 1, 0>>

NegLogSigmoid(x) == NegLogSigmoidTable[x + 9]

(***************************************************************************)
(* CrossEntropyLoss.forward                                                *)
(***************************************************************************)
Nodes == {1, 2}
EmbVals == {-1, 1}
Dims == {1, 2}
Embeddings == [Nodes -> [Dims -> EmbVals]]
EdgeLists == SeqsUpTo(Nodes \X Nodes, MaxEdges)

\* fn.u_mul_v('h', 'h', 'score'): per edge, the elementwise product of the
\* source and destination rows
UMulV(h, g) == [e \in 1..Len(g) |-> [d \in Dims |-> h[g[e][1]][d] * h[g[e][2]][d]]]

\* score.sum(-1): per edge, the sum over the feature axis
SumLast(score) == [e \in 1..Len(score) |-> SumSeq(score[e])]

EdgeScores(h, g) == SumLast(UMulV(h, g))

NegLossUnflipped(neg_score) ==
    Mean([e \in 1..Len(neg_score) |-> NegLogSigmoid(neg_score[e])])

PosLoss(pos_score) == Mean([e \in 1..Len(pos_score) |-> NegLogSigmoid(pos_score[e])])
NegLoss(neg_score) == Mean([e \in 1..Len(neg_score) |-> NegLogSigmoid(-neg_score[e])])

LossFromScores(pos_score, neg_score) ==
    LET pos_loss == PosLoss(pos_score)
        neg_loss == NegLoss(neg_score)
        loss == pos_loss + neg_loss
    IN  [status |-> "returned", loss |-> loss, pos_loss |-> pos_loss, neg_loss |-> neg_loss]

CEForward(h, pg, ng) == LossFromScores(EdgeScores(h, pg), EdgeScores(h, ng))

CEIdle ==
    /\ block_outputs = <<>>
    /\ pos_graph = <<>>
    /\ neg_graph = <<>>
    /\ ce_ret = NotCalled

CEInit ==
    /\ block_outputs \in Embeddings
    /\ pos_graph \in EdgeLists
    /\ neg_graph \in EdgeLists
    /\ ce_ret = NotCalled

Forward ==
    /\ ce_ret = NotCalled
    /\ ce_ret' = CEForward(block_outputs, pos_graph, neg_graph)
    /\ UNCHANGED <<block_outputs, pos_graph, neg_graph>>
    /\ UNCHANGED <<ldVars, tsVars, argVars, mdVars, itVars, grVars>>

(***************************************************************************)
(* SAGELightning.loss_discriminator                                        *)
(***************************************************************************)
\* n_labels=2 of the domain classifier: one logit column per data source
Cols == {0, 1}
LogitVals == {-1, 1}
Logits(rows) == [1..rows -> [Cols -> LogitVals]]
LogitTensors == UNION {Logits(rows) : rows \in 1..MaxRows}
\* one or two latent tensors of any size, or three single-row ones
LatentLogits ==
    [1..1 -> LogitTensors] \cup [1..2 -> LogitTensors] \cup [1..3 -> Logits(1)]

\* th.zeros_like / th.ones_like followed by cls_target[:, i] = 1 / 0.0, for the
\* i-th tensor (i counts from 0, as enumerate does)
ClsTargetColumn0(i, rows, ptc) ==
    [r \in 1..rows |-> [c \in Cols |->
        IF ptc THEN (IF c = 0 THEN 1 ELSE 0) ELSE (IF c = 0 THEN 0 ELSE 1)]]

ClsTarget(i, rows, ptc) ==
    [r \in 1..rows |-> [c \in Cols |->
        IF ptc THEN (IF c = i THEN 1 ELSE 0) ELSE (IF c = i THEN 0 ELSE 1)]]

\* th.nn.BCEWithLogitsLoss()(logits, target): the mean over all elements of
\* log(1+e^x) - x*t
BCEWithLogitsLoss(logits, target) ==
    LET n == Len(logits)
        elem(k) ==
            LET r == ((k - 1) \div 2) + 1
                c == (k - 1) % 2
            IN  NegLogSigmoid(-logits[r][c]) - 1000 * logits[r][c] * target[r][c]
    IN  Mean([k \in 1..(2 * n) |-> elem(k)])

LDTargets(logits, ptc) ==
    [k \in 1..Len(logits) |-> ClsTarget(k - 1, Len(logits[k]), ptc)]

LDLosses(logits, ptc) ==
    [k \in 1..Len(logits) |-> BCEWithLogitsLoss(logits[k], LDTargets(logits, ptc)[k])]

\* cls_target[:, i] with i >= 2 is out of range for the two logit columns
LossDiscriminator(logits, ptc, rd) ==
    IF Len(logits) > Cardinality(Cols)
    THEN Raised("IndexError")
    ELSE [status |-> "returned",
          value |-> IF rd THEN LDLosses(logits, ptc) ELSE SumSeq(LDLosses(logits, ptc))]

LDIdle ==
    /\ cls_logits = <<>>
    /\ predict_true_class = TRUE
    /\ return_details = FALSE
    /\ cls_target = <<>>
    /\ losses = <<>>
    /\ ld_ret = NotCalled

LDInit ==
    /\ cls_logits \in LatentLogits
    /\ predict_true_class \in BOOLEAN
    /\ return_details \in BOOLEAN
    /\ cls_target = <<>>
    /\ losses = <<>>
    /\ ld_ret = NotCalled

loss_discriminator ==
    /\ ld_ret = NotCalled
    /\ ld_ret' = LossDiscriminator(cls_logits, predict_true_class, return_details)
    /\ LET done == IF Len(cls_logits) > Cardinality(Cols)
                   THEN SubSeq(cls_logits, 1, Cardinality(Cols))
                   ELSE cls_logits
       IN  /\ cls_target' = LDTargets(done, predict_true_class)
           /\ losses' = LDLosses(done, predict_true_class)
    /\ UNCHANGED <<cls_logits, predict_true_class, return_details>>
    /\ UNCHANGED <<ceVars, tsVars, argVars, mdVars, itVars, grVars>>

(***************************************************************************)
(* SAGELightning.training_step                                             *)
(***************************************************************************)
RECURSIVE Pow10(_)
Pow10(n) == IF n = 0 THEN 1 ELSE 10 * Pow10(n - 1)

\* 2/(1+10**(-1*((1*k)/2000)))-1 = (10^(k/2000) - 1)/(10^(k/2000) + 1), in
\* thousandths. The value is exact where 2000 divides k; elsewhere it is only
\* known to lie between the values at the multiples of 2000 around k, so the
\* local is kept as the interval [lo, hi] that holds it.
KappaAt(m) == (1000 * (Pow10(m) - 1)) \div (Pow10(m) + 1)
KappaLocal(k) ==
    [lo |-> KappaAt(k \div 2000),
     hi |-> IF k % 2000 = 0 THEN KappaAt(k \div 2000) ELSE KappaAt(k \div 2000 + 1) + 1]

\* One entry of a batch: the positive and negative graphs of the edge sampler
\* and, as pred, what self.module gives for the entry's message-flow graphs.
TrainPreds == {h \in Embeddings : h[1] = <<1, 1>> /\ h[2][1] >= h[2][2]}
TrainItems == {[pred |-> h, pos |-> <<<<1, 2>>>>, neg |-> <<<<2, 2>>>>] : h \in TrainPreds}
\* batch['labelled'] is absent (<<>>) or holds one entry
Batches == [unlabelled : TrainItems, labelled : {<<>>} \cup {<<it>> : it \in TrainItems}]
\* logits of the domain classifier for one latent tensor of a training batch
TrainLogits == {t \in Logits(1) : t[1][0] # t[1][1]}
\* th.nn.CrossEntropyLoss of the label classifier, and the bonefight cosine loss
ClassifierLosses == {0, 693}
BoneFightLosses == {-1500, 250}

\* __init__ builds self.kl = th.nn.KLDivLoss(reduction='sum') under
\* self.supervised only; training_step never calls it (the block that did is
\* inside a string literal, lines 126-130)
KlConstructed(sup) == sup

KappaAfterAlways(sup, k) == k + 1
KappaAfter(sup, k) == IF sup THEN k + 1 ELSE k

TotalLoss(bone_fight_loss, loss, classifier_loss, supervised_loss, classifier_domain_loss, kap) ==
    bone_fight_loss + loss + classifier_loss + supervised_loss + classifier_domain_loss

TrainingStep(sup, sm, k, b, logits_u, logits_l, classifier_loss, bone_fight_loss) ==
    LET u == b.unlabelled
        first == CEForward(u.pred, u.pos, u.neg)
        reads_u == {<<"unlabelled", "gene">>}
        calls_u == {"module", "loss_fcn", "log"}
        reads_s == reads_u \cup (IF sm THEN {} ELSE {<<"unlabelled", "ngh">>})
    IN  IF ~sup
        THEN [ret |-> [status |-> "returned", loss |-> first.loss],
              kappa |-> KappaAfter(sup, k),
              reads |-> reads_u,
              calls |-> calls_u,
              locals |-> [loss |-> first.loss]]
        ELSE IF b.labelled = <<>>
        THEN [ret |-> Raised("KeyError"),
              kappa |-> k,
              reads |-> reads_s,
              calls |-> {"optimizers", "module", "loss_fcn"},
              locals |-> [loss |-> first.loss]]
        ELSE LET l == b.labelled[1]
                 supervised_loss == CEForward(l.pred, l.pos, l.neg).loss
                 classifier_domain_loss ==
                     LossDiscriminator(<<logits_u, logits_l>>, TRUE, FALSE).value
                 kap == KappaLocal(k)
                 total == TotalLoss(bone_fight_loss, first.loss, classifier_loss,
                                    supervised_loss, classifier_domain_loss, kap)
             IN  [ret |-> [status |-> "returned", loss |-> total],
                  kappa |-> KappaAfter(sup, k),
                  reads |-> reads_s \cup {<<"labelled", "gene">>, <<"labelled", "label">>},
                  calls |-> calls_u \cup {"optimizers", "CF", "train_acc", "domain_adaptation"},
                  locals |-> [loss |-> first.loss,
                              supervised_loss |-> supervised_loss,
                              classifier_loss |-> classifier_loss,
                              classifier_domain_loss |-> classifier_domain_loss,
                              bone_fight_loss |-> bone_fight_loss,
                              kappa |-> kap,
                              step |-> k]]

NoBatch == [unlabelled |-> <<>>, labelled |-> <<>>]

TSIdle ==
    /\ supervised = FALSE
    /\ smooth = FALSE
    /\ kappa = 0
    /\ hparams_kappa = 0
    /\ batch = NoBatch
    /\ reads = {}
    /\ calls = {}
    /\ ts_locals = [loss |-> 0]
    /\ ts_ret = NotCalled

\* SAGELightning.__init__ (kappa=0 by default; 1999 starts next to the point
\* where the annealing exponent reaches 1)
TSInit ==
    /\ supervised \in BOOLEAN
    /\ smooth \in BOOLEAN
    /\ kappa \in {0, 1999}
    /\ hparams_kappa = kappa
    /\ batch = NoBatch
    /\ reads = {}
    /\ calls = {}
    /\ ts_locals = [loss |-> 0]
    /\ ts_ret = NotCalled

training_step ==
    /\ kappa - hparams_kappa < MaxSteps
    /\ \E b \in Batches, logits_u \in TrainLogits, logits_l \in TrainLogits,
          classifier_loss \in ClassifierLosses, bone_fight_loss \in BoneFightLosses :
          LET out == TrainingStep(supervised, smooth, kappa, b, logits_u, logits_l,
                                  classifier_loss, bone_fight_loss)
          IN  /\ batch' = b
              /\ ts_ret' = out.ret
              /\ kappa' = out.kappa
              /\ reads' = out.reads
              /\ calls' = out.calls
              /\ ts_locals' = out.locals
    /\ UNCHANGED <<supervised, smooth, hparams_kappa>>
    /\ UNCHANGED <<ceVars, ldVars, argVars, mdVars, itVars, grVars>>

(***************************************************************************)
(* MultiDataset.__init__, load_Datasets, load_from_files, check_unit,      *)
(* check_unique_genes                                                      *)
(***************************************************************************)
\* An optional value: <<>> is None, <<v>> is v
NoneVal == <<>>
Some(v) == <<v>>

\* unique_genes arrays, pint unit scales (1 = 1 micrometer) and area scales
GeneArrays == {<<"A">>, <<"B">>, <<"A", "B">>, <<"B", "A">>}
UnitScales == {1, 2}
AreaScales == {1, 4}
\* Dataset objects as a caller may hand them over in a list
DatasetObjs == [unit_scale : UnitScales, area_scale : AreaScales, unique_genes : GeneArrays]
\* the parquet files of a folder, by the genes their gene column holds
ParquetFiles == [file_genes : GeneArrays]
DataTypes == {"list", "str", "tuple", "NoneType"}

\* Dataset.__init__ on a file: 1 micrometer scales, and the unique genes given
\* or, when none are given, those found in the file
NewDataset(f, ug) ==
    [unit_scale |-> 1, area_scale |-> 1,
     unique_genes |-> IF ug = NoneVal THEN f.file_genes ELSE ug[1]]

\* np.all of a list of booleans
NpAllList(bs) == \A k \in 1..Len(bs) : bs[k]
\* np.all of a generator object: the generator is not iterated, and the object
\* that comes back is truthy whatever it would yield
NpAllGenerator(bs) == TRUE

CheckUnitNoRaise(ds) ==
    IF ds = <<>>
    THEN [ret |-> Raised("IndexError"), set |-> {}, unit_scale |-> 0, unit_area |-> 0]
    ELSE [ret |-> [status |-> "returned"], set |-> {"unit_scale", "unit_area"},
          unit_scale |-> ds[1].unit_scale, unit_area |-> ds[1].area_scale]

CheckUnit(ds) ==
    LET all_unit == [k \in 1..Len(ds) |-> ds[k].unit_scale]
        all_area == [k \in 1..Len(ds) |-> ds[k].area_scale]
    IN  IF ~NpAllList([k \in 1..Len(ds) |-> all_unit[k] = all_unit[1]])
        THEN [ret |-> Raised("Exception"), set |-> {}, unit_scale |-> 0, unit_area |-> 0]
        ELSE IF ~NpAllGenerator([k \in 1..Len(ds) |-> all_area[k] = all_area[1]])
        THEN [ret |-> Raised("Exception"), set |-> {}, unit_scale |-> 0, unit_area |-> 0]
        ELSE IF ds = <<>>
        THEN [ret |-> Raised("IndexError"), set |-> {}, unit_scale |-> 0, unit_area |-> 0]
        ELSE [ret |-> [status |-> "returned"], set |-> {"unit_scale", "unit_area"},
              unit_scale |-> all_unit[1], unit_area |-> all_area[1]]

\* np.all(all_ug == all_ug[0]) on a list of arrays. Arrays of one length stack
\* into a matrix that is compared row by row with the first array. Arrays of
\* different lengths do not stack: depending on the numpy version the
\* comparison is False (the method raises its Exception) or numpy itself
\* raises ValueError; ragged_exc is the one the build in use gives.
CheckUniqueGenesFirstGene(ds, ragged_exc) ==
    IF \A k \in 1..Len(ds) : ds[k].unique_genes[1] = ds[1].unique_genes[1]
    THEN [status |-> "returned"]
    ELSE Raised("Exception")

CheckUniqueGenes(ds, ragged_exc) ==
    LET all_ug == [k \in 1..Len(ds) |-> ds[k].unique_genes]
    IN  IF \E k \in 1..Len(ds) : Len(all_ug[k]) # Len(all_ug[1])
        THEN Raised(ragged_exc)
        ELSE IF \A k \in 1..Len(ds), g \in 1..Len(all_ug[1]) : all_ug[k][g] = all_ug[1][g]
        THEN [status |-> "returned"]
        ELSE Raised("Exception")

\* load_Datasets: what it leaves in self and how it ends
LoadDatasets(d, ug, ragged_exc) ==
    IF d = <<>>
    THEN [datasets |-> d, unique_genes |-> ug, ret |-> Raised("IndexError"),
          trace |-> <<"load_Datasets">>]
    ELSE [datasets |-> d, unique_genes |-> Some(d[1].unique_genes),
          ret |-> CheckUniqueGenes(d, ragged_exc),
          trace |-> <<"load_Datasets", "check_unique_genes">>]

\* load_from_files: one Dataset per file, the first one's unique genes kept
\* for the files that follow when none were given
LoadFromFiles(d, ug) ==
    LET ug1 == IF d # <<>> /\ ug = NoneVal THEN Some(NewDataset(d[1], ug).unique_genes) ELSE ug
        results == [k \in 1..Len(d) |-> IF k = 1 THEN NewDataset(d[k], ug)
                                                 ELSE NewDataset(d[k], ug1)]
    IN  [datasets |-> results, unique_genes |-> ug1, ret |-> [status |-> "returned"],
         trace |-> <<"load_from_files">>]

DispatchAnyAsList(dt, d, ug, ragged_exc) ==
    IF dt = "str" THEN LoadFromFiles(d, ug) ELSE LoadDatasets(d, ug, ragged_exc)

\* the "Load data" part of __init__ (lines 346-353)
Dispatch(dt, d, ug, ragged_exc) ==
    IF dt = "list" THEN LoadDatasets(d, ug, ragged_exc)
    ELSE IF dt = "str" THEN LoadFromFiles(d, ug)
    ELSE [datasets |-> <<>>, unique_genes |-> ug, ret |-> Raised("Exception"),
          trace |-> <<>>]

MDConstruct(dt, d, ug, ragged_exc) ==
    LET loaded == Dispatch(dt, d, ug, ragged_exc)
        base == {"index", "unique_genes"}
                \cup (IF loaded.trace # <<>> THEN {"datasets"} ELSE {})
        unit == CheckUnit(loaded.datasets)
    IN  IF loaded.ret.status = "raised"
        THEN [attrs |-> base, datasets |-> loaded.datasets,
              unique_genes |-> loaded.unique_genes, unit_scale |-> 0, unit_area |-> 0,
              trace |-> loaded.trace, ret |-> loaded.ret]
        ELSE IF unit.ret.status = "raised"
        THEN [attrs |-> base, datasets |-> loaded.datasets,
              unique_genes |-> loaded.unique_genes, unit_scale |-> 0, unit_area |-> 0,
              trace |-> Append(loaded.trace, "check_unit"), ret |-> unit.ret]
        ELSE [attrs |-> base \cup unit.set \cup {"color_dict"},
              datasets |-> loaded.datasets,
              unique_genes |-> loaded.unique_genes,
              unit_scale |-> unit.unit_scale, unit_area |-> unit.unit_area,
              trace |-> loaded.trace \o
                        <<"check_unit", "auto_handle_color_dict", "overwrite_color_dict">>,
              ret |-> [status |-> "returned"]]

ArgIdle ==
    /\ data_type = "list"
    /\ data = <<>>
    /\ arg_unique_genes = NoneVal

MDIdle ==
    /\ md_attrs = {}
    /\ datasets = <<>>
    /\ index = 0
    /\ unique_genes = NoneVal
    /\ unit_scale = 0
    /\ unit_area = 0
    /\ md_trace = <<>>
    /\ md_ret = NotCalled

\* the arguments of a call MultiDataset(data, unique_genes)
ArgInit ==
    /\ data_type \in DataTypes
    /\ arg_unique_genes \in {NoneVal, Some(<<"B", "A">>)}
    /\ data \in CASE data_type = "list" ->
                      {<<>>} \cup UNION {[1..n -> DatasetObjs] : n \in 1..MaxDatasets}
                  [] data_type = "str" ->
                      {<<>>} \cup UNION {[1..n -> ParquetFiles] : n \in 1..MaxDatasets}
                  [] OTHER -> {<<>>}

MultiDataset_init ==
    /\ md_ret = NotCalled
    /\ \E ragged_exc \in {"Exception", "ValueError"} :
          LET self == MDConstruct(data_type, data, arg_unique_genes, ragged_exc)
          IN  /\ md_attrs' = self.attrs
              /\ datasets' = self.datasets
              /\ index' = 0
              /\ unique_genes' = self.unique_genes
              /\ unit_scale' = self.unit_scale
              /\ unit_area' = self.unit_area
              /\ md_trace' = self.trace
              /\ md_ret' = self.ret
    /\ UNCHANGED <<argVars, ceVars, ldVars, tsVars, itVars, grVars>>

(***************************************************************************)
(* MultiDataset.__iter__, __next__ and the for loops that use them         *)
(***************************************************************************)
Names == {"d1", "d2", "d3"}
IterObjs ==
    [dataset_name : Names, unit_scale : {1}, area_scale : {1}, unique_genes : {<<"A", "B">>}]

\* __next__: the new self.index, and either StopIteration or the dataset handed out
MultiDataset_next_NoReset(idx, ds) ==
    IF idx >= Len(ds)
    THEN [index |-> idx, stop |-> TRUE, pd |-> <<>>]
    ELSE [index |-> idx + 1, stop |-> FALSE, pd |-> <<ds[idx + 1]>>]

MultiDataset_next(idx, ds) ==
    IF idx >= Len(ds)
    THEN [index |-> 0, stop |-> TRUE, pd |-> <<>>]
    ELSE [index |-> idx + 1, stop |-> FALSE, pd |-> <<ds[idx + 1]>>]

ItIdle ==
    /\ it_pc = "idle"
    /\ start_index = 0
    /\ yielded = <<>>
    /\ loops = 0

\* a MultiDataset as __init__ leaves it on a list of Datasets that passes the
\* checks: self.index = 0
ItInit ==
    /\ datasets \in SeqsUpTo(IterObjs, MaxIterLen)
    /\ index = 0
    /\ md_attrs = {"index", "unique_genes", "datasets", "unit_scale", "unit_area", "color_dict"}
    /\ unique_genes = Some(<<"A", "B">>)
    /\ unit_scale = 1
    /\ unit_area = 1
    /\ md_trace = <<"load_Datasets", "check_unique_genes", "check_unit",
                    "auto_handle_color_dict", "overwrite_color_dict">>
    /\ md_ret = [status |-> "returned"]
    /\ ItIdle

\* for d in multidataset: iter() hands back the object itself, index untouched
ForStart ==
    /\ it_pc # "looping"
    /\ loops < MaxLoops
    /\ it_pc' = "looping"
    /\ start_index' = index
    /\ yielded' = <<>>
    /\ loops' = loops + 1
    /\ UNCHANGED <<mdVars, ceVars, ldVars, tsVars, argVars, grVars>>

\* the loop asks for the next element and ends on StopIteration
ForNext ==
    /\ it_pc = "looping"
    /\ LET r == MultiDataset_next(index, datasets)
       IN  /\ index' = r.index
           /\ it_pc' = IF r.stop THEN "done" ELSE "looping"
           /\ yielded' = yielded \o r.pd
    /\ UNCHANGED <<md_attrs, datasets, unique_genes, unit_scale, unit_area, md_trace, md_ret,
                   start_index, loops>>
    /\ UNCHANGED <<ceVars, ldVars, tsVars, argVars, grVars>>

\* the loop body leaves the loop (break, return, an exception) before the end
ForBreak ==
    /\ it_pc = "looping"
    /\ yielded # <<>>
    /\ it_pc' = "broken"
    /\ UNCHANGED <<mdVars, start_index, yielded, loops>>
    /\ UNCHANGED <<ceVars, ldVars, tsVars, argVars, grVars>>

(***************************************************************************)
(* MultiDataset.arange_grid_offset and reset_offset.  Coordinates, extents *)
(* and offsets are in half units, and extents are whole units (even), so   *)
(* that -0.5 * x_extend stays on the integer grid.                         *)
(***************************************************************************)
\* the alphanumerical order of the dataset names
NameOrder(name) == CASE name = "d1" -> 1 [] name = "d2" -> 2 [] name = "d3" -> 3

\* Datasets as loaded: name, Z coordinate, width in X and in Y, centre, and
\* the offsets applied so far (none). The second one has all its points on one
\* vertical line (no width in X).
GridObjs ==
    {[dataset_name |-> "d2", z |-> 1, x_extend |-> 4, y_extend |-> 2, xy_center |-> <<1, -2>>,
      x_offset |-> 0, y_offset |-> 0, z_offset |-> 0],
     [dataset_name |-> "d1", z |-> 0, x_extend |-> 0, y_extend |-> 4, xy_center |-> <<-3, 2>>,
      x_offset |-> 0, y_offset |-> 0, z_offset |-> 0]}

\* Dataset.offset_data(x_offset, y_offset, z_offset, apply=True): the points,
\* and with them the centre and the Z coordinate, are translated, and the
\* offsets are added to the ones the dataset keeps
OffsetData(d, x_offset, y_offset, z_offset) ==
    [d EXCEPT !.xy_center = <<@[1] + x_offset, @[2] + y_offset>>, !.z = @ + z_offset,
              !.x_offset = @ + x_offset, !.y_offset = @ + y_offset,
              !.z_offset = @ + z_offset]

RECURSIVE MaxOf(_)
MaxOf(s) == IF Len(s) = 1 THEN s[1]
            ELSE IF s[1] >= MaxOf(Tail(s)) THEN s[1] ELSE MaxOf(Tail(s))

\* ceil(np.sqrt(n_datasets))
GridSize(n) == CHOOSE g \in 0..n : g * g >= n /\ (g = 0 \/ (g - 1) * (g - 1) < n)

\* np.linspace(start, stop, num)
Linspace(start, stop, num) ==
    [j \in 1..num |-> IF num = 1 THEN start
                      ELSE start + ((j - 1) * (stop - start)) \div (num - 1)]

\* np.meshgrid(x_spacing, y_spacing) followed by ravel(): row after row, x
\* running fastest
MeshXColumnMajor(x_spacing, y_spacing) ==
    [k \in 1..(Len(x_spacing) * Len(y_spacing)) |-> x_spacing[((k - 1) \div Len(x_spacing)) + 1]]
MeshX(x_spacing, y_spacing) ==
    [k \in 1..(Len(x_spacing) * Len(y_spacing)) |-> x_spacing[((k - 1) % Len(x_spacing)) + 1]]
MeshY(x_spacing, y_spacing) ==
    [k \in 1..(Len(x_spacing) * Len(y_spacing)) |-> y_spacing[((k - 1) \div Len(x_spacing)) + 1]]

\* np.argsort(keys): the orders of the indices that put the keys in ascending
\* order; which one numpy gives for equal keys depends on its sort kernel
RECURSIVE ArgSortOf(_, _)
ArgSortOf(keys, rest) ==
    IF rest = {} THEN {<<>>}
    ELSE UNION {{<<k>> \o t : t \in ArgSortOf(keys, rest \ {k})} :
                k \in {m \in rest : \A j \in rest : keys[m] <= keys[j]}}
ArgSort(keys) == ArgSortOf(keys, 1..Len(keys))

OrderBys == {"z", "name", "x", "y"}

\* the if / elif chain of lines 533-540 has a branch for orderby
OrderbyAny(orderby) == TRUE
OrderbyUnderstood(orderby) == orderby \in OrderBys
SortKeys(ds, orderby) ==
    [k \in 1..Len(ds) |->
        CASE orderby = "z" -> ds[k].z
          [] orderby = "name" -> NameOrder(ds[k].dataset_name)
          [] orderby = "x" -> ds[k].x_extend
          [] orderby = "y" -> ds[k].y_extend]

\* the loop of lines 544-550 over sorted[i..]: the datasets after it, and the
\* datasets offset_data was called on, in call order
RECURSIVE PlaceFrom(_, _, _, _, _)
PlaceFrom(ds, sorted, x, y, i) ==
    IF i > Len(sorted) THEN [datasets |-> ds, offsets |-> <<>>]
    ELSE LET s == sorted[i]
             dataset_center == ds[s].xy_center
             offset_x == x[i] - dataset_center[1]
             offset_y == y[i] - dataset_center[2]
             moved == [ds EXCEPT ![s] = OffsetData(ds[s], offset_x, offset_y, 0)]
             rest == PlaceFrom(moved, sorted, x, y, i + 1)
         IN  [datasets |-> rest.datasets,
              offsets |-> <<s>> \o rest.offsets]

\* arange_grid_offset(orderby), with sorted the order np.argsort gave
ArangeGridOffset(ds, orderby, sorted) ==
    IF ds = <<>>
    THEN [datasets |-> ds, sorted |-> <<>>, offsets |-> <<>>, ret |-> Raised("ValueError")]
    ELSE LET max_x_extend == MaxOf([k \in 1..Len(ds) |-> ds[k].x_extend])
             max_y_extend == MaxOf([k \in 1..Len(ds) |-> ds[k].y_extend])
             n_datasets == Len(ds)
             grid_size == GridSize(n_datasets)
             x_extend == (grid_size - 1) * max_x_extend
             y_extend == (grid_size - 1) * max_y_extend
             x_spacing == Linspace((-1 * x_extend) \div 2, x_extend \div 2, grid_size)
             y_spacing == Linspace((-1 * y_extend) \div 2, y_extend \div 2, grid_size)
             x == MeshX(x_spacing, y_spacing)
             y == MeshY(x_spacing, y_spacing)
         IN  IF ~OrderbyUnderstood(orderby)
             THEN [datasets |-> ds, sorted |-> <<>>, offsets |-> <<>>,
                   ret |-> Raised("Exception")]
             ELSE LET placed == PlaceFrom(ds, sorted, x, y, 1)
                  IN  [datasets |-> placed.datasets, sorted |-> sorted,
                       offsets |-> placed.offsets, ret |-> [status |-> "returned"]]

\* reset_offset(z)
ResetOffsetAlsoZ(ds, z) ==
    [k \in 1..Len(ds) |->
        OffsetData(ds[k], -ds[k].xy_center[1], -ds[k].xy_center[2], -ds[k].z)]
ResetOffset(ds, z) ==
    [k \in 1..Len(ds) |->
        OffsetData(ds[k], -ds[k].xy_center[1], -ds[k].xy_center[2],
                   IF z THEN -ds[k].z ELSE 0)]

GrIdle == gr_call = [op |-> "none"]

\* a MultiDataset as __init__ leaves it, on a list of up to MaxGrid Datasets
\* or (datasets set by hand) on none
GrInit ==
    /\ datasets \in {<<>>} \cup SeqsUpTo(GridObjs, MaxGrid)
    /\ index = 0
    /\ md_attrs = {"index", "unique_genes", "datasets", "unit_scale", "unit_area", "color_dict"}
    /\ unique_genes = Some(<<"A", "B">>)
    /\ unit_scale = 1
    /\ unit_area = 1
    /\ md_trace = <<"load_Datasets", "check_unique_genes", "check_unit",
                    "auto_handle_color_dict", "overwrite_color_dict">>
    /\ md_ret = [status |-> "returned"]
    /\ GrIdle

\* Callers are taken not to arrange twice in a row: a second arrangement
\* starts from centres the first one set, as an arrangement of freshly loaded
\* datasets starts from the centres they were loaded with.
arange_grid_offset ==
    \E orderby \in OrderBys \cup {"size"} :
        /\ gr_call.op # "arange_grid_offset"
        /\ \E sorted \in (IF orderby \in OrderBys /\ datasets # <<>>
                        THEN ArgSort(SortKeys(datasets, orderby)) ELSE {<<>>}) :
            LET out == ArangeGridOffset(datasets, orderby, sorted)
            IN  /\ datasets' = out.datasets
                /\ gr_call' = [op |-> "arange_grid_offset", orderby |-> orderby,
                               sorted |-> out.sorted, offset_data |-> out.offsets,
                               ret |-> out.ret]
                /\ UNCHANGED <<md_attrs, index, unique_genes, unit_scale, unit_area,
                               md_trace, md_ret>>
                /\ UNCHANGED <<ceVars, ldVars, tsVars, argVars, itVars>>

reset_offset ==
    \E z \in BOOLEAN :
        /\ datasets' = ResetOffset(datasets, z)
        /\ gr_call' = [op |-> "reset_offset", z |-> z,
                       offset_data |-> [k \in 1..Len(datasets) |-> k],
                       ret |-> [status |-> "returned"]]
        /\ UNCHANGED <<md_attrs, index, unique_genes, unit_scale, unit_area, md_trace, md_ret>>
        /\ UNCHANGED <<ceVars, ldVars, tsVars, argVars, itVars>>

(***************************************************************************)
(* Specifications                                                          *)
(***************************************************************************)
CENext == Forward
InitCE == CEInit /\ LDIdle /\ TSIdle /\ ArgIdle /\ MDIdle /\ ItIdle /\ GrIdle
SpecCE == InitCE /\ [][CENext]_vars

LDNext == loss_discriminator
InitLD == LDInit /\ CEIdle /\ TSIdle /\ ArgIdle /\ MDIdle /\ ItIdle /\ GrIdle
SpecLD == InitLD /\ [][LDNext]_vars

TSNext == training_step
InitTS == TSInit /\ CEIdle /\ LDIdle /\ ArgIdle /\ MDIdle /\ ItIdle /\ GrIdle
SpecTS == InitTS /\ [][TSNext]_vars

MDNext == MultiDataset_init
InitMD == ArgInit /\ MDIdle /\ CEIdle /\ LDIdle /\ TSIdle /\ ItIdle /\ GrIdle
SpecMD == InitMD /\ [][MDNext]_vars

ItNext == ForStart \/ ForNext \/ ForBreak
InitIt == ItInit /\ ArgIdle /\ CEIdle /\ LDIdle /\ TSIdle /\ GrIdle

GrNext == arange_grid_offset \/ reset_offset
InitGr == GrInit /\ ArgIdle /\ CEIdle /\ LDIdle /\ TSIdle /\ ItIdle
SpecGr == InitGr /\ [][GrNext]_vars
SpecIt == InitIt /\ [][ItNext]_vars

(***************************************************************************)
(* Claims                                                                  *)
(***************************************************************************)

\* C1: with supervised=True the supervised contrastive loss and the
\* domain-adaptation loss enter the loss training_step returns weighted by
\* kappa = 2/(1+10^(-k/2000)) - 1 of the step counter k, which is 0 at the
\* first step (k = 0) and stays below 1: the returned loss is
\* bone_fight_loss + loss + classifier_loss + kappa*(supervised_loss +
\* classifier_domain_loss), stated on the interval that holds kappa.
C1_KappaWeighted ==
    (supervised /\ ts_ret.status = "returned") =>
        LET L == ts_locals
            base == L.bone_fight_loss + L.loss + L.classifier_loss
            annealed == L.supervised_loss + L.classifier_domain_loss
        IN  /\ L.step = 0 => (L.kappa.lo = 0 /\ L.kappa.hi = 0)
            /\ L.kappa.lo <= L.kappa.hi /\ L.kappa.hi <= 1000
            /\ 1000 * (ts_ret.loss - base) >= L.kappa.lo * annealed
            /\ 1000 * (ts_ret.loss - base) <= L.kappa.hi * annealed

\* C2: CrossEntropyLoss.forward returns (loss, pos_loss, neg_loss) with
\* loss = pos_loss + neg_loss; pos_loss is the mean over the positive edges of
\* -logsigmoid(score) and neg_loss the mean over the negative edges of
\* -logsigmoid(-score), score being the dot product of the endpoint embeddings;
\* raising the score of a positive edge never increases the loss and raising
\* the score of a negative edge never decreases it.
C2_ContrastiveLoss ==
    ce_ret.status = "returned" =>
        LET dot(e) == block_outputs[e[1]][1] * block_outputs[e[2]][1]
                      + block_outputs[e[1]][2] * block_outputs[e[2]][2]
            ps == [e \in 1..Len(pos_graph) |-> dot(pos_graph[e])]
            ns == [e \in 1..Len(neg_graph) |-> dot(neg_graph[e])]
        IN  /\ ce_ret.loss = ce_ret.pos_loss + ce_ret.neg_loss
            /\ ce_ret.pos_loss =
                   SumSeq([e \in 1..Len(ps) |-> NegLogSigmoid(ps[e])]) \div Len(ps)
            /\ ce_ret.neg_loss =
                   SumSeq([e \in 1..Len(ns) |-> NegLogSigmoid(-ns[e])]) \div Len(ns)
            /\ \A e \in 1..Len(ps), d \in 1..MaxRaise :
                   LossFromScores([ps EXCEPT ![e] = @ + d], ns).loss <= ce_ret.loss
            /\ \A e \in 1..Len(ns), d \in 1..MaxRaise :
                   LossFromScores(ps, [ns EXCEPT ![e] = @ + d]).loss >= ce_ret.loss

C2_Witness ==
    /\ ce_ret.status = "returned"
    /\ Len(pos_graph) = 2
    /\ Len(neg_graph) = 2
    /\ EdgeScores(block_outputs, pos_graph)[1] # EdgeScores(block_outputs, pos_graph)[2]
    /\ EdgeScores(block_outputs, neg_graph)[1] = 0
    /\ ce_ret.pos_loss # ce_ret.neg_loss

\* C3: loss_discriminator called with predict_true_class=True gives the i-th
\* latent tensor the target 1 in column i and 0 in the other column in every
\* row (the exact complement with predict_true_class=False), and returns the
\* sum of the per-source losses, or their list in input order with
\* return_details=True.
C3_DomainTargets ==
    ld_ret.status = "returned" =>
        /\ Len(cls_target) = Len(cls_logits)
        /\ \A k \in 1..Len(cls_logits) :
               /\ Len(cls_target[k]) = Len(cls_logits[k])
               /\ \A r \in 1..Len(cls_logits[k]), c \in Cols :
                      cls_target[k][r][c] =
                          IF predict_true_class = (c = k - 1) THEN 1 ELSE 0
               /\ losses[k] = BCEWithLogitsLoss(cls_logits[k], cls_target[k])
        /\ IF return_details
           THEN ld_ret.value = losses
           ELSE ld_ret.value = SumSeq(losses)

C3_Witness ==
    /\ ld_ret.status = "returned"
    /\ Len(cls_logits) = 2
    /\ predict_true_class
    /\ ~return_details
    /\ Len(cls_logits[1]) = 2
    /\ Len(cls_logits[2]) = 1
    /\ losses[1] # losses[2]
    /\ ld_ret.value = losses[1] + losses[2]

\* C4: built with supervised=False, training_step returns exactly the
\* contrastive loss of batch['unlabelled'], reads nothing of batch['labelled'],
\* calls neither the label classifier nor the domain classifier, and leaves
\* self.kappa as the constructor set it.
C4_UnsupervisedOnly ==
    ~supervised =>
        /\ kappa = hparams_kappa
        /\ ts_ret.status # "not called" =>
               /\ ts_ret.status = "returned"
               /\ ts_ret.loss =
                      LossFromScores(
                          EdgeScores(batch.unlabelled.pred, batch.unlabelled.pos),
                          EdgeScores(batch.unlabelled.pred, batch.unlabelled.neg)).loss
               /\ \A r \in reads : r[1] = "unlabelled"
               /\ calls \cap {"CF", "domain_adaptation"} = {}

C4_Witness ==
    /\ ~supervised
    /\ ts_ret.status = "returned"
    /\ batch.labelled # <<>>
    /\ batch.labelled[1].pred # batch.unlabelled.pred
    /\ ts_ret.loss = ts_locals.loss
    /\ kappa = 1999

\* C5: a for loop over a MultiDataset that starts with index = 0 and runs to
\* completion is handed every element of self.datasets exactly once, in list
\* order, and ends with StopIteration and index back at 0, so the next
\* complete loop is handed the same elements in the same order.
C5_CompleteLoop ==
    (it_pc = "done" /\ start_index = 0) =>
        /\ yielded = datasets
        /\ index = 0

C5_Witness ==
    /\ it_pc = "done"
    /\ start_index = 0
    /\ loops = 2
    /\ Len(datasets) = 3
    /\ datasets[1] # datasets[2]
    /\ yielded = datasets

\* C6: check_unit raises an Exception whenever the area_scale of some dataset
\* is not identical to that of the first dataset, also when all unit_scale
\* values are identical.
C6_AreaMismatchRaises ==
    ((\E t \in 1..Len(md_trace) : md_trace[t] = "check_unit")
     /\ (\E k \in 1..Len(datasets) : datasets[k].area_scale # datasets[1].area_scale))
    => md_ret.status = "raised"

\* C7: check_unit raises an Exception whenever some dataset's unit_scale is
\* not identical to the first dataset's, and self.unit_scale and
\* self.unit_area are set, to the first dataset's values, only when no
\* exception is raised.
C7_UnitMismatchRaises ==
    (\E t \in 1..Len(md_trace) : md_trace[t] = "check_unit") =>
        /\ (\E k \in 1..Len(datasets) : datasets[k].unit_scale # datasets[1].unit_scale)
           => /\ md_ret = Raised("Exception")
              /\ md_attrs \cap {"unit_scale", "unit_area"} = {}
        /\ md_ret.status = "raised" => md_attrs \cap {"unit_scale", "unit_area"} = {}
        /\ md_ret.status = "returned"
           => /\ {"unit_scale", "unit_area"} \subseteq md_attrs
              /\ unit_scale = datasets[1].unit_scale
              /\ unit_area = datasets[1].area_scale

C7_Witness ==
    /\ md_trace = <<"load_Datasets", "check_unique_genes", "check_unit">>
    /\ Len(datasets) = 2
    /\ datasets[1].unit_scale # datasets[2].unit_scale
    /\ datasets[1].area_scale = datasets[2].area_scale
    /\ md_ret = Raised("Exception")

\* C8: load_Datasets sets self.unique_genes to the first dataset's
\* unique_genes, and check_unique_genes raises an Exception if any dataset of
\* the list has a unique_genes array that differs from the first dataset's in
\* an element or in length (and raises nothing when all are identical).
C8_UniqueGenesIdentical ==
    (data_type = "list" /\ data # <<>> /\ md_ret.status # "not called") =>
        /\ unique_genes = Some(data[1].unique_genes)
        /\ datasets = data
        /\ IF \E k \in 1..Len(data) : data[k].unique_genes # data[1].unique_genes
           THEN /\ md_ret.status = "raised"
                /\ md_trace = <<"load_Datasets", "check_unique_genes">>
           ELSE Len(md_trace) > 2 /\ md_trace[3] = "check_unit"

C8_Witness ==
    /\ data_type = "list"
    /\ Len(data) = 2
    /\ Len(data[1].unique_genes) = 1
    /\ Len(data[2].unique_genes) = 2
    /\ data[2].unique_genes[1] = data[1].unique_genes[1]
    /\ arg_unique_genes # NoneVal
    /\ unique_genes = Some(data[1].unique_genes)
    /\ md_ret.status = "raised"

\* C9: __init__ dispatches on type(data): a list goes to load_Datasets, a str
\* to load_from_files, and any other type raises an Exception before unit
\* checking and colour handling, with no datasets attribute set.
C9_DispatchOnType ==
    md_ret.status # "not called" =>
        /\ data_type = "list" =>
               /\ md_trace[1] = "load_Datasets"
               /\ \A t \in 1..Len(md_trace) : md_trace[t] # "load_from_files"
        /\ data_type = "str" =>
               /\ md_trace[1] = "load_from_files"
               /\ \A t \in 1..Len(md_trace) : md_trace[t] # "load_Datasets"
        /\ data_type \notin {"list", "str"} =>
               /\ md_ret = Raised("Exception")
               /\ md_trace = <<>>
               /\ "datasets" \notin md_attrs

C9_Witness ==
    /\ data_type = "tuple"
    /\ md_ret = Raised("Exception")
    /\ md_trace = <<>>
    /\ "datasets" \notin md_attrs
    /\ "unique_genes" \in md_attrs

\* C10: arange_grid_offset places the n datasets in a square grid of
\* grid_size = ceil(sqrt(n)) positions a side (at least n positions), spaced
\* max_x_extend apart in X and max_y_extend apart in Y around (0,0); the
\* dataset of rank i in the ascending order of the chosen key has its
\* xy_center on the i-th position, row after row; every dataset has a rank
\* of its own, and where both spacings are positive no two centres coincide.
C10_GridPlacement ==
    (gr_call.op = "arange_grid_offset" /\ gr_call.ret.status = "returned") =>
        LET n == Len(datasets)
            g == CHOOSE q \in 1..n : q * q >= n /\ (q - 1) * (q - 1) < n
            mx == CHOOSE m \in {datasets[k].x_extend : k \in 1..n} :
                      \A k \in 1..n : datasets[k].x_extend <= m
            my == CHOOSE m \in {datasets[k].y_extend : k \in 1..n} :
                      \A k \in 1..n : datasets[k].y_extend <= m
            rank == gr_call.sorted
            key(k) == CASE gr_call.orderby = "z" -> datasets[k].z
                        [] gr_call.orderby = "name" ->
                               IF datasets[k].dataset_name = "d1" THEN 1 ELSE 2
                        [] gr_call.orderby = "x" -> datasets[k].x_extend
                        [] gr_call.orderby = "y" -> datasets[k].y_extend
            posx(i) == ((i - 1) % g) * mx - ((g - 1) * mx) \div 2
            posy(i) == ((i - 1) \div g) * my - ((g - 1) * my) \div 2
        IN  /\ Len(rank) = n
            /\ {rank[i] : i \in 1..n} = 1..n
            /\ \A i, j \in 1..n : i < j => key(rank[i]) <= key(rank[j])
            /\ \A i \in 1..n : datasets[rank[i]].xy_center = <<posx(i), posy(i)>>
            /\ \A i \in 1..n : posx(i) + posx(g - ((i - 1) % g)) = 0
            /\ \A i \in 1..n : 2 * posy(i) + (g - 1) * my = 2 * ((i - 1) \div g) * my
            /\ gr_call.offset_data = rank
            /\ (mx > 0 /\ my > 0) =>
                   \A k, l \in 1..n :
                       k # l => datasets[k].xy_center # datasets[l].xy_center

C10_Witness ==
    /\ gr_call.op = "arange_grid_offset"
    /\ gr_call.ret.status = "returned"
    /\ gr_call.orderby = "y"
    /\ Len(datasets) = 5
    /\ gr_call.sorted[1] # 1
    /\ datasets[gr_call.sorted[1]].xy_center = <<-4, -4>>
    /\ datasets[gr_call.sorted[4]].xy_center = <<-4, 0>>
    /\ datasets[gr_call.sorted[5]].xy_center = <<0, 0>>

\* C11: a call of arange_grid_offset with an orderby other than 'z', 'name',
\* 'x', 'y' raises (an Exception, the "Orderby key not understood" one
\* whenever there are datasets to take the maximum extent of), offset_data
\* has been called on no dataset by then, and every dataset is as it was
\* before the call: centre, Z coordinate and offsets.
C11_BadOrderbyRaises ==
    [][(gr_call'.op = "arange_grid_offset" /\ gr_call'.orderby \notin {"z", "name", "x", "y"}) =>
           /\ gr_call'.ret.status = "raised"
           /\ (datasets # <<>>) => (gr_call'.ret = Raised("Exception"))
           /\ gr_call'.offset_data = <<>>
           /\ gr_call'.sorted = <<>>
           /\ datasets' = datasets]_vars

C11_Witness ==
    /\ gr_call.op = "arange_grid_offset"
    /\ gr_call.orderby = "size"
    /\ gr_call.ret = Raised("Exception")
    /\ gr_call.offset_data = <<>>
    /\ Len(datasets) = 3
    /\ datasets[1].xy_center = <<1, -2>>
    /\ datasets[2].xy_center = <<-3, 2>>
    /\ \A k \in 1..3 : datasets[k].x_offset = 0 /\ datasets[k].y_offset = 0

\* C12: reset_offset calls offset_data on every dataset with the negative of
\* its centre, so that afterwards every centre is (0,0), whatever came before
\* (the datasets as loaded, an arrangement in a grid, another reset); with
\* z=True the Z coordinate becomes 0 as well, with z=False the Z coordinate
\* and the Z offset are what they were.
C12_ResetToOrigin ==
    [][(gr_call'.op = "reset_offset") =>
           /\ Len(datasets') = Len(datasets)
           /\ gr_call'.offset_data = [k \in 1..Len(datasets) |-> k]
           /\ \A k \in 1..Len(datasets) :
                  /\ datasets'[k].xy_center = <<0, 0>>
                  /\ datasets'[k].x_offset = datasets[k].x_offset - datasets[k].xy_center[1]
                  /\ datasets'[k].y_offset = datasets[k].y_offset - datasets[k].xy_center[2]
                  /\ gr_call'.z => /\ datasets'[k].z = 0
                                   /\ datasets'[k].z_offset = datasets[k].z_offset - datasets[k].z
                  /\ ~gr_call'.z => /\ datasets'[k].z = datasets[k].z
                                    /\ datasets'[k].z_offset = datasets[k].z_offset
                  /\ datasets'[k].dataset_name = datasets[k].dataset_name
                  /\ datasets'[k].x_extend = datasets[k].x_extend
                  /\ datasets'[k].y_extend = datasets[k].y_extend]_vars

C12_Witness ==
    /\ gr_call.op = "reset_offset"
    /\ ~gr_call.z
    /\ Len(datasets) = 3
    /\ \A k \in 1..3 : datasets[k].xy_center = <<0, 0>>
    /\ \E k \in 1..3 : datasets[k].z = 1 /\ datasets[k].z_offset = 0
    /\ \E k \in 1..3 : datasets[k].x_offset # 0

\* C13: SAGELightning has a configuration that turns latent (KL)
\* regularization on: in the one configuration that constructs the KL
\* divergence, supervised=True, training_step calls it and the loss it
\* returns is the sum of the other terms plus that kl_loss; in the
\* configuration without it the returned loss is the contrastive loss alone.
C13_LatentRegularization ==
    ts_ret.status = "returned" =>
        /\ KlConstructed(supervised) =>
               /\ "kl" \in calls
               /\ "kl_loss" \in DOMAIN ts_locals
               /\ ts_ret.loss = ts_locals.bone_fight_loss + ts_locals.loss
                                + ts_locals.classifier_loss + ts_locals.supervised_loss
                                + ts_locals.classifier_domain_loss + ts_locals.kl_loss
        /\ ~KlConstructed(supervised) =>
               /\ "kl" \notin calls
               /\ ts_ret.loss = ts_locals.loss

====
